---- MODULE Spec2Model ----
(***************************************************************************)
(* Thin-lens camera calculations of camera.py (Sensor, Lens, Camera).      *)
(*                                                                         *)
(* Numbers.  The program computes with Python floats wrapped in            *)
(* quantities.Quantity.  A float is modelled by the exact rational         *)
(* n/d * 1000^e, kept in lowest terms with 1 <= |n/d| < 1000, so that a    *)
(* length given in m, mm or micron needs no large integers.                *)
(* +infinity is the magnitude with d = 0.  Rounding is not modelled.       *)
(*                                                                         *)
(* Units.  A Quantity carries its units as the exponent of each unit, as   *)
(* quantities does: mm * um stays mm*um, mm / mm is dimensionless, and     *)
(* only +, -, comparison and rescale convert between units.                *)
(***************************************************************************)
EXTENDS Integers, Sequences, FiniteSets, TLC

None == "None"

(***************************************************************************)
(* Exact arithmetic on magnitudes                                          *)
(***************************************************************************)
Abs(x) == IF x < 0 THEN -x ELSE x

Min(a, b) == IF a <= b THEN a ELSE b

RECURSIVE GCD(_, _)
GCD(a, b) == IF b = 0 THEN a ELSE GCD(b, a % b)

RECURSIVE Pow1000(_)
Pow1000(k) == IF k <= 0 THEN 1 ELSE 1000 * Pow1000(k - 1)

\* <<n, d, e>> with n/d * 1000^e the argument and 1 <= n/d < 1000 (n, d > 0)
RECURSIVE Engineering(_, _, _)
Engineering(n, d, e) ==
    IF n \div 1000 >= d
    THEN LET g == GCD(1000, n) IN Engineering(n \div g, (1000 \div g) * d, e + 1)
    ELSE IF n < d
    THEN LET g == GCD(1000, d) IN Engineering((1000 \div g) * n, d \div g, e - 1)
    ELSE LET g == GCD(n, d) IN <<n \div g, d \div g, e>>

(***************************************************************************)
(* Units of the quantities package used by the program and its tests       *)
(***************************************************************************)
Units == {"m", "mm", "um", "rad"}

\* a unit as a power of 1000 of the SI unit: pq.m, pq.mm, pq.micron
UnitExp == [m |-> 0, mm |-> -1, um |-> -2, rad |-> 0]

Dimensionless == [m |-> 0, mm |-> 0, um |-> 0, rad |-> 0]

UnitOf(name) == [Dimensionless EXCEPT ![name] = 1]

meter == UnitOf("m")

millimeter == UnitOf("mm")

micron == UnitOf("um")

radian == UnitOf("rad")

DimAdd(u, v) == [x \in Units |-> u[x] + v[x]]

DimSub(u, v) == [x \in Units |-> u[x] - v[x]]

\* the exponent of 1000 that a compound unit stands for
ScaleExp(u) == u.m * UnitExp.m + u.mm * UnitExp.mm + u.um * UnitExp.um

LengthDim(u) == u.m + u.mm + u.um

SameDimension(u, v) == LengthDim(u) = LengthDim(v) /\ u.rad = v.rad

(***************************************************************************)
(* Quantity: magnitude n/d * 1000^e in units u                             *)
(***************************************************************************)
Norm(n, d, e, u) ==
    IF d = 0 THEN [n |-> 1, d |-> 0, e |-> 0, u |-> u]
    ELSE IF n = 0 THEN [n |-> 0, d |-> 1, e |-> 0, u |-> u]
    ELSE LET s == IF (n < 0) # (d < 0) THEN -1 ELSE 1
             g == GCD(Abs(n), Abs(d))
             r == Engineering(Abs(n) \div g, Abs(d) \div g, e)
         IN  [n |-> s * r[1], d |-> r[2], e |-> r[3], u |-> u]

\* magnitude * unit, e.g. 5 * pq.micron
Q(n, d, unit) == Norm(n, d, 0, unit)

IsInf(q) == q.d = 0

\* Quantity.__mul__ / __truediv__: magnitudes combine, unit exponents add
QMul(a, b) ==
    LET g == GCD(Abs(a.n), b.d)
        h == GCD(Abs(b.n), a.d)
    IN  Norm((a.n \div g) * (b.n \div h), (a.d \div h) * (b.d \div g),
             a.e + b.e, DimAdd(a.u, b.u))

QDiv(a, b) ==
    LET g == GCD(Abs(a.n), Abs(b.n))
        h == GCD(a.d, b.d)
    IN  Norm((a.n \div g) * (b.d \div h), (a.d \div h) * (b.n \div g),
             a.e - b.e, DimSub(a.u, b.u))

\* float * Quantity, Quantity / float
Times(n, d, q) == Norm(n * q.n, d * q.d, q.e, q.u)

\* Quantity.rescale(units)
rescale(q, u) ==
    IF q.n = 0 \/ IsInf(q) THEN [q EXCEPT !.u = u]
    ELSE [q EXCEPT !.e = q.e + ScaleExp(q.u) - ScaleExp(u), !.u = u]

\* the integers a.n/a.d*1000^a.e and b.n/b.d*1000^b.e over a common denominator
Aligned(a, b) ==
    LET k == IF a.n = 0 THEN b.e ELSE IF b.n = 0 THEN a.e ELSE Min(a.e, b.e)
        g == GCD(a.d, b.d)
    IN  [x |-> a.n * (b.d \div g) * Pow1000(a.e - k),
         y |-> b.n * (a.d \div g) * Pow1000(b.e - k),
         d |-> (a.d \div g) * b.d,
         e |-> k]

\* Quantity.__add__ / __sub__: the right operand is rescaled to the left's units
QAdd(a, b) ==
    LET p == Aligned(a, rescale(b, a.u))
    IN  Norm(p.x + p.y, p.d, p.e, a.u)

QSub(a, b) ==
    LET p == Aligned(a, rescale(b, a.u))
    IN  Norm(p.x - p.y, p.d, p.e, a.u)

\* Quantity.__gt__ with a Quantity: the right operand is rescaled, then the
\* magnitudes are compared
QGt(a, b) ==
    IF IsInf(a) THEN ~IsInf(b)
    ELSE IF IsInf(b) THEN FALSE
    ELSE LET p == Aligned(a, rescale(b, a.u)) IN p.x > p.y

\* Quantity.__gt__ with a plain number: the magnitude is compared with it
QGtNumber(a, k) ==
    IF IsInf(a) THEN TRUE
    ELSE LET p == Aligned(a, Norm(k, 1, 0, a.u)) IN p.x > p.y

\* Quantity.simplified: the same quantity in SI base units
simplified(q) ==
    rescale(q, [Dimensionless EXCEPT !.m = LengthDim(q.u), !.rad = q.u.rad])

\* a numpy function of quantities whose value is not rational: kept as a term
Term(fn, args) == [fn |-> fn, args |-> args]

(***************************************************************************)
(* Outcomes of a call: a returned value or a raised exception              *)
(***************************************************************************)
Ok(v) == [kind |-> "ok", value |-> v]

Raise(kind, detail) == [kind |-> kind, value |-> detail]

IsOk(o) == o.kind = "ok"

\* the names bound at module level in camera.py
ModuleGlobals == {"attr", "math", "numpy", "pq", "typing", "INF",
                  "Sensor", "Lens", "Camera"}

\* raise Error(fmt, value): the name Error is looked up first
RaiseError(fmt, value) ==
    IF "Error" \in ModuleGlobals
    THEN Raise("Error", <<fmt, value>>)
    ELSE Raise("NameError", <<"Error", value>>)

\* reading an attribute of None
AttributeError(attribute) == Raise("AttributeError", attribute)

(***************************************************************************)
(* Sensor                                                                  *)
(***************************************************************************)
Sensor(name, pixel_pitch, width_pixels, height_pixels, cfa) ==
    [name |-> name, pixel_pitch |-> pixel_pitch, width_pixels |-> width_pixels,
     height_pixels |-> height_pixels, cfa |-> cfa]

sensor_width(self) == Times(self.width_pixels, 1, self.pixel_pitch)

sensor_height(self) == Times(self.height_pixels, 1, self.pixel_pitch)

sensor_diagonal(self) ==
    Term("hypot", <<sensor_height(self), sensor_width(self)>>)

\* 2.25 as a ratio
CocPixelsNum == 9

CocPixelsDen == 4

circle_of_confusion_diameter(self) ==
    IF self.cfa = "bayer"
    THEN Ok(Times(CocPixelsNum, CocPixelsDen, self.pixel_pitch))
    ELSE RaiseError("Unknown cfa '%s'", self.cfa)

(***************************************************************************)
(* Lens                                                                    *)
(***************************************************************************)
Lens(name, focal_length, aperture_diameter, projection) ==
    [name |-> name, focal_length |-> focal_length,
     aperture_diameter |-> aperture_diameter, projection |-> projection]

f_number(self) == QDiv(self.focal_length, self.aperture_diameter)

\* _GetAngleOfView with the last branch taken for every other projection
GetAngleOfView_ElseEquidistant(self, focal_plane_length) ==
    IF self.projection = "rectilinear"
    THEN Ok(Term("2*arctan2*radian",
                 <<focal_plane_length,
                   Times(2, 1, rescale(self.focal_length, focal_plane_length.u))>>))
    ELSE Ok(QMul(simplified(QDiv(focal_plane_length, self.focal_length)),
                 Q(1, 1, radian)))

GetAngleOfView(self, focal_plane_length) ==
    IF self.projection = "rectilinear"
    THEN Ok(Term("2*arctan2*radian",
                 <<focal_plane_length,
                   Times(2, 1, rescale(self.focal_length, focal_plane_length.u))>>))
    ELSE IF self.projection = "equidistant"
    THEN Ok(QMul(simplified(QDiv(focal_plane_length, self.focal_length)),
                 Q(1, 1, radian)))
    ELSE RaiseError("Unknown projection '%s'", self.projection)

(***************************************************************************)
(* State: the objects constructed so far, in construction order, and the   *)
(* last call made by a caller with its outcome.  A reference to an object  *)
(* is its index; 0 is None.                                                *)
(***************************************************************************)
VARIABLES sensors, lenses, cameras, last

vars == <<sensors, lenses, cameras, last>>

objects == <<sensors, lenses, cameras>>

NumSensors == 1

NumLenses == 2

NumCameras == 2

(***************************************************************************)
(* Camera                                                                  *)
(***************************************************************************)
Camera(name, sensor, lens) == [name |-> name, sensor |-> sensor, lens |-> lens]

GetAnglesOfView(self) ==
    IF self.lens = 0 THEN AttributeError("_GetAngleOfView")
    ELSE IF self.sensor = 0 THEN AttributeError("sensor_width")
    ELSE LET w == GetAngleOfView(lenses[self.lens],
                                 sensor_width(sensors[self.sensor]))
             h == GetAngleOfView(lenses[self.lens],
                                 sensor_height(sensors[self.sensor]))
         IN  IF ~IsOk(w) THEN w
             ELSE IF ~IsOk(h) THEN h
             ELSE Ok(<<w.value, h.value>>)

GetDiagonalAngleOfView(self) ==
    LET angles == GetAnglesOfView(self)
    IN  IF ~IsOk(angles) THEN angles
        ELSE Ok(Term("hypot", angles.value))

GetInstantaneousAngleOfView(self) ==
    IF self.lens = 0 THEN AttributeError("_GetAngleOfView")
    ELSE IF self.sensor = 0 THEN AttributeError("pixel_pitch")
    ELSE GetAngleOfView(lenses[self.lens], sensors[self.sensor].pixel_pitch)

GetGroundSampleDistance(self, distance) ==
    LET ifov == GetInstantaneousAngleOfView(self)
    IN  IF ~IsOk(ifov) THEN ifov
        ELSE Ok(Term("2*distance*tan(ifov/2)", <<distance, ifov.value>>))

\* GetHyperfocalDistance with the focal length subtracted instead of added
GetHyperfocalDistance_Minus(self) ==
    IF self.lens = 0 THEN AttributeError("focal_length")
    ELSE IF self.sensor = 0 THEN AttributeError("circle_of_confusion_diameter")
    ELSE LET focal_length == lenses[self.lens].focal_length
             focal_length_squared == QMul(focal_length, focal_length)
             coc_diameter == circle_of_confusion_diameter(sensors[self.sensor])
         IN  IF ~IsOk(coc_diameter) THEN coc_diameter
             ELSE Ok(rescale(
                      QSub(QDiv(focal_length_squared,
                                QMul(f_number(lenses[self.lens]),
                                     coc_diameter.value)),
                           focal_length),
                      meter))

\* GetHyperfocalDistance without the final rescale(pq.meter)
GetHyperfocalDistance_NoRescale(self) ==
    IF self.lens = 0 THEN AttributeError("focal_length")
    ELSE IF self.sensor = 0 THEN AttributeError("circle_of_confusion_diameter")
    ELSE LET focal_length == lenses[self.lens].focal_length
             focal_length_squared == QMul(focal_length, focal_length)
             coc_diameter == circle_of_confusion_diameter(sensors[self.sensor])
         IN  IF ~IsOk(coc_diameter) THEN coc_diameter
             ELSE Ok(QAdd(QDiv(focal_length_squared,
                               QMul(f_number(lenses[self.lens]),
                                    coc_diameter.value)),
                          focal_length))

\* GetHyperfocalDistance measuring the blur circle through the lens's
\* angle-of-view formula, and so dispatching on the projection
GetHyperfocalDistance_ByProjection(self) ==
    IF self.lens = 0 THEN AttributeError("focal_length")
    ELSE IF self.sensor = 0 THEN AttributeError("circle_of_confusion_diameter")
    ELSE LET focal_length == lenses[self.lens].focal_length
             focal_length_squared == QMul(focal_length, focal_length)
             coc_diameter == circle_of_confusion_diameter(sensors[self.sensor])
             angle == IF IsOk(coc_diameter)
                      THEN GetAngleOfView(lenses[self.lens], coc_diameter.value)
                      ELSE coc_diameter
         IN  IF ~IsOk(angle) THEN angle
             ELSE Ok(rescale(
                      QAdd(QDiv(focal_length_squared,
                                QMul(f_number(lenses[self.lens]),
                                     coc_diameter.value)),
                           focal_length),
                      meter))

GetHyperfocalDistance(self) ==
    IF self.lens = 0 THEN AttributeError("focal_length")
    ELSE IF self.sensor = 0 THEN AttributeError("circle_of_confusion_diameter")
    ELSE LET focal_length == lenses[self.lens].focal_length
             focal_length_squared == QMul(focal_length, focal_length)
             coc_diameter == circle_of_confusion_diameter(sensors[self.sensor])
         IN  IF ~IsOk(coc_diameter) THEN coc_diameter
             ELSE Ok(rescale(
                      QAdd(QDiv(focal_length_squared,
                                QMul(f_number(lenses[self.lens]),
                                     coc_diameter.value)),
                           focal_length),
                      meter))

\* INF * pq.m
InfiniteMeters == Norm(1, 0, 0, meter)

\* GetDepthOfField with the signs of equations 22.3 and 22.4 exchanged
GetDepthOfField_SignsSwapped(self, focus_distance) ==
    IF self.lens = 0 THEN AttributeError("focal_length")
    ELSE LET focal_length == lenses[self.lens].focal_length
             focal_length_squared == QMul(focal_length, focal_length)
         IN  IF ~QGt(focus_distance, focal_length)
             THEN Raise("AssertionError", "focus_distance > self.lens.focal_length")
             ELSE IF self.sensor = 0
             THEN AttributeError("circle_of_confusion_diameter")
             ELSE LET coc_diameter ==
                          circle_of_confusion_diameter(sensors[self.sensor])
                  IN  IF ~IsOk(coc_diameter) THEN coc_diameter
                      ELSE LET blur == QMul(QMul(f_number(lenses[self.lens]),
                                                 coc_diameter.value),
                                            focus_distance)
                               sd   == QSub(focal_length_squared, blur)
                               near == IF QGtNumber(sd, 0)
                                       THEN QDiv(QMul(focus_distance,
                                                      focal_length_squared), sd)
                                       ELSE InfiniteMeters
                               far  == QDiv(QMul(focus_distance, focal_length_squared),
                                            QAdd(focal_length_squared, blur))
                           IN  Ok(<<near, far>>)

\* GetDepthOfField reading the circle of confusion before its assertion
GetDepthOfField_DispatchFirst(self, focus_distance) ==
    IF self.lens = 0 THEN AttributeError("focal_length")
    ELSE IF self.sensor = 0 THEN AttributeError("circle_of_confusion_diameter")
    ELSE LET focal_length == lenses[self.lens].focal_length
             focal_length_squared == QMul(focal_length, focal_length)
             coc_diameter == circle_of_confusion_diameter(sensors[self.sensor])
         IN  IF ~IsOk(coc_diameter) THEN coc_diameter
             ELSE IF ~QGt(focus_distance, focal_length)
             THEN Raise("AssertionError", "focus_distance > self.lens.focal_length")
             ELSE LET blur == QMul(QMul(f_number(lenses[self.lens]),
                                        coc_diameter.value),
                                   focus_distance)
                      near == QDiv(QMul(focus_distance, focal_length_squared),
                                   QAdd(focal_length_squared, blur))
                      sd   == QSub(focal_length_squared, blur)
                      far  == IF QGtNumber(sd, 0)
                              THEN QDiv(QMul(focus_distance,
                                             focal_length_squared), sd)
                              ELSE InfiniteMeters
                  IN  Ok(<<near, far>>)

GetDepthOfField(self, focus_distance) ==
    IF self.lens = 0 THEN AttributeError("focal_length")
    ELSE LET focal_length == lenses[self.lens].focal_length
             focal_length_squared == QMul(focal_length, focal_length)
         IN  IF ~QGt(focus_distance, focal_length)
             THEN Raise("AssertionError", "focus_distance > self.lens.focal_length")
             ELSE IF self.sensor = 0
             THEN AttributeError("circle_of_confusion_diameter")
             ELSE LET coc_diameter ==
                          circle_of_confusion_diameter(sensors[self.sensor])
                  IN  IF ~IsOk(coc_diameter) THEN coc_diameter
                      ELSE LET blur == QMul(QMul(f_number(lenses[self.lens]),
                                                 coc_diameter.value),
                                            focus_distance)
                               near == QDiv(QMul(focus_distance, focal_length_squared),
                                            QAdd(focal_length_squared, blur))
                               sd   == QSub(focal_length_squared, blur)
                               far  == IF QGtNumber(sd, 0)
                                       THEN QDiv(QMul(focus_distance,
                                                      focal_length_squared), sd)
                                       ELSE InfiniteMeters
                           IN  Ok(<<near, far>>)

\* 43.27 mm, the diagonal of the 35 mm format, in hundredths of a mm
Diagonal35mmHundredths == 4327

Get35mmEquivalentFocalLength(self) ==
    IF self.sensor = 0 THEN AttributeError("sensor_diagonal")
    ELSE IF self.lens = 0 THEN AttributeError("focal_length")
    ELSE Ok(Term("rescale",
                 <<Term("mul",
                        <<Term("div", <<Q(Diagonal35mmHundredths, 100, millimeter),
                                        sensor_diagonal(sensors[self.sensor])>>),
                          lenses[self.lens].focal_length>>),
                   millimeter>>))

\* 1.5, the APS-C crop factor, in tenths
APSCCropTenths == 15

GetAPSCEquivalentFocalLength(self) ==
    LET equivalent == Get35mmEquivalentFocalLength(self)
    IN  IF ~IsOk(equivalent) THEN equivalent
        ELSE Ok(Term("div", <<equivalent.value, APSCCropTenths, 10>>))

(***************************************************************************)
(* Inputs                                                                  *)
(***************************************************************************)
\* <<pixel_pitch, cfa>>: the test's 5 micron Bayer sensor with the pitch given
\* in each unit, a 2 micron one, and one with a colour filter array that
\* circle_of_confusion_diameter does not know
SensorInputs == {<<Q(5, 1, micron), "bayer">>,
                 <<Q(5, 1000, millimeter), "bayer">>,
                 <<Q(5, 1000000, meter), "bayer">>,
                 <<Q(2, 1, micron), "bayer">>,
                 <<Q(5, 1, micron), "foveon">>}

\* <<focal_length, aperture_diameter>>: the test's 10 mm at f/2 in mixed units
LensSizes == {<<Q(10, 1, millimeter), Q(5, 1, millimeter)>>,
              <<Q(1, 100, meter), Q(5000, 1, micron)>>,
              <<Q(10000, 1, micron), Q(5, 1000, meter)>>}

\* the two projections _GetAngleOfView knows and one it does not
Projections == {"rectilinear", "equidistant", "stereographic"}

\* subject distances for GetGroundSampleDistance
Distances == {Q(25, 1, meter)}

\* focus distances: below and at the focal length, then below, inside and above
\* the interval from f^2/(N c) to the hyperfocal distance
FocusDistances == {Q(5, 1, millimeter), Q(10, 1, millimeter), Q(1, 1, meter),
                   Q(445, 100, meter), Q(40, 9, meter), Q(10, 1, meter),
                   Q(25, 1, meter)}

\* a caller may pass on the hyperfocal distance it has just been given
Returned(op) == IF last.op = op /\ IsOk(last.outcome) THEN {last.outcome.value}
                ELSE {}

(***************************************************************************)
(* Construction: the attrs-generated __init__ stores its arguments         *)
(***************************************************************************)
Called(op, self, arg, outcome) ==
    [op |-> op, self |-> self, arg |-> arg, outcome |-> outcome]

Init ==
    /\ sensors = <<>>
    /\ lenses = <<>>
    /\ cameras = <<>>
    /\ last = Called("none", 0, None, Ok(None))

NewSensor ==
    \E input \in SensorInputs :
        /\ Len(sensors) < NumSensors
        /\ sensors' = Append(sensors, Sensor("s", input[1], 4000, 3000, input[2]))
        /\ last' = Called("Sensor", 0, None, Ok(Len(sensors) + 1))
        /\ UNCHANGED <<lenses, cameras>>

NewLens ==
    \E size \in LensSizes, projection \in Projections :
        /\ Len(lenses) < NumLenses
        /\ lenses' = Append(lenses, Lens("l", size[1], size[2], projection))
        /\ last' = Called("Lens", 0, None, Ok(Len(lenses) + 1))
        /\ UNCHANGED <<sensors, cameras>>

\* Camera(name, sensor, lens), or Camera() with sensor and lens left None
NewCamera ==
    \E sensor \in 0..Len(sensors), lens \in 0..Len(lenses) :
        /\ (sensor = 0) = (lens = 0)
        /\ Len(cameras) < NumCameras
        /\ cameras' = Append(cameras, Camera("c", sensor, lens))
        /\ last' = Called("Camera", 0, None, Ok(Len(cameras) + 1))
        /\ UNCHANGED <<sensors, lenses>>

(***************************************************************************)
(* Queries                                                                 *)
(***************************************************************************)
\* a query that keeps its result on the camera it was asked of
Query_Caching(op, self, arg, outcome) ==
    /\ last' = Called(op, self, arg, outcome)
    /\ cameras' = IF op \in {"GetHyperfocalDistance", "GetDepthOfField"}
                  THEN [cameras EXCEPT ![self].name = op]
                  ELSE cameras
    /\ UNCHANGED <<sensors, lenses>>

Query(op, self, arg, outcome) ==
    /\ last' = Called(op, self, arg, outcome)
    /\ UNCHANGED objects

ReadSensorWidth ==
    \E s \in 1..Len(sensors) :
        Query("sensor_width", s, None, Ok(sensor_width(sensors[s])))

ReadSensorHeight ==
    \E s \in 1..Len(sensors) :
        Query("sensor_height", s, None, Ok(sensor_height(sensors[s])))

ReadSensorDiagonal ==
    \E s \in 1..Len(sensors) :
        Query("sensor_diagonal", s, None, Ok(sensor_diagonal(sensors[s])))

ReadCircleOfConfusionDiameter ==
    \E s \in 1..Len(sensors) :
        Query("circle_of_confusion_diameter", s, None,
              circle_of_confusion_diameter(sensors[s]))

ReadFNumber ==
    \E l \in 1..Len(lenses) :
        Query("f_number", l, None, Ok(f_number(lenses[l])))

CallGetAnglesOfView ==
    \E c \in 1..Len(cameras) :
        Query("GetAnglesOfView", c, None, GetAnglesOfView(cameras[c]))

CallGetDiagonalAngleOfView ==
    \E c \in 1..Len(cameras) :
        Query("GetDiagonalAngleOfView", c, None,
              GetDiagonalAngleOfView(cameras[c]))

CallGetInstantaneousAngleOfView ==
    \E c \in 1..Len(cameras) :
        Query("GetInstantaneousAngleOfView", c, None,
              GetInstantaneousAngleOfView(cameras[c]))

CallGetGroundSampleDistance ==
    \E c \in 1..Len(cameras), distance \in Distances :
        Query("GetGroundSampleDistance", c, distance,
              GetGroundSampleDistance(cameras[c], distance))

CallGetHyperfocalDistance ==
    \E c \in 1..Len(cameras) :
        Query("GetHyperfocalDistance", c, None,
              GetHyperfocalDistance(cameras[c]))

CallGetDepthOfField ==
    \E c \in 1..Len(cameras),
       focus_distance \in FocusDistances \cup Returned("GetHyperfocalDistance") :
        Query("GetDepthOfField", c, focus_distance,
              GetDepthOfField(cameras[c], focus_distance))

CallGet35mmEquivalentFocalLength ==
    \E c \in 1..Len(cameras) :
        Query("Get35mmEquivalentFocalLength", c, None,
              Get35mmEquivalentFocalLength(cameras[c]))

CallGetAPSCEquivalentFocalLength ==
    \E c \in 1..Len(cameras) :
        Query("GetAPSCEquivalentFocalLength", c, None,
              GetAPSCEquivalentFocalLength(cameras[c]))

Next ==
    \/ NewSensor
    \/ NewLens
    \/ NewCamera
    \/ ReadSensorWidth
    \/ ReadSensorHeight
    \/ ReadSensorDiagonal
    \/ ReadCircleOfConfusionDiameter
    \/ ReadFNumber
    \/ CallGetAnglesOfView
    \/ CallGetDiagonalAngleOfView
    \/ CallGetInstantaneousAngleOfView
    \/ CallGetGroundSampleDistance
    \/ CallGetHyperfocalDistance
    \/ CallGetDepthOfField
    \/ CallGet35mmEquivalentFocalLength
    \/ CallGetAPSCEquivalentFocalLength

Spec == Init /\ [][Next]_vars

(***************************************************************************)
(* Vocabulary of the properties                                            *)
(***************************************************************************)
ConstructorOps == {"Sensor", "Lens", "Camera"}

SensorOps == {"sensor_width", "sensor_height", "sensor_diagonal",
              "circle_of_confusion_diameter"}

LensOps == {"f_number"}

AngleOps == {"GetAnglesOfView", "GetDiagonalAngleOfView",
             "GetInstantaneousAngleOfView", "GetGroundSampleDistance"}

FocusOps == {"GetHyperfocalDistance", "GetDepthOfField"}

EquivalentOps == {"Get35mmEquivalentFocalLength", "GetAPSCEquivalentFocalLength"}

CameraOps == AngleOps \cup FocusOps \cup EquivalentOps

QueryOps == SensorOps \cup LensOps \cup CameraOps

\* the camera of the last call was constructed with a sensor and a lens
OnCamera(ops) ==
    /\ last.op \in ops
    /\ cameras[last.self].sensor # 0
    /\ cameras[last.self].lens # 0

TheSensor == sensors[cameras[last.self].sensor]

TheLens == lenses[cameras[last.self].lens]

KnownCfa(sensor) == sensor.cfa = "bayer"

KnownProjection(lens) == lens.projection \in {"rectilinear", "equidistant"}

\* a and b are the same physical quantity, whatever their units
SameQuantity(a, b) == SameDimension(a.u, b.u) /\ rescale(b, a.u) = a

SameOutcome(a, b) == a.kind = b.kind /\ a.value = b.value

\* f^2 and N c s of the depth-of-field equations for the last call
FSquared == QMul(TheLens.focal_length, TheLens.focal_length)

Blur == QMul(QMul(f_number(TheLens), Times(9, 4, TheSensor.pixel_pitch)), last.arg)

\* the last call was GetDepthOfField(s) with s > f on a camera with a Bayer sensor
DepthOfFieldDefined ==
    /\ OnCamera({"GetDepthOfField"})
    /\ KnownCfa(TheSensor)
    /\ QGt(last.arg, TheLens.focal_length)

Near == last.outcome.value[1]

Far == last.outcome.value[2]

\* C1: for focal_length < focus_distance < GetHyperfocalDistance(),
\* GetDepthOfField returns 0 < near < focus_distance < far with far finite.
C1_FarFiniteBelowHyperfocal ==
    (/\ DepthOfFieldDefined
     /\ QGt(GetHyperfocalDistance(cameras[last.self]).value, last.arg))
    => /\ IsOk(last.outcome)
       /\ QGtNumber(Near, 0)
       /\ QGt(last.arg, Near)
       /\ QGt(Far, last.arg)
       /\ ~IsInf(Far)

\* C2: GetDepthOfField returns far = +infinity whenever focus_distance equals
\* or exceeds the value GetHyperfocalDistance() returns.
C2_FarInfiniteFromHyperfocal ==
    (/\ DepthOfFieldDefined
     /\ ~QGt(GetHyperfocalDistance(cameras[last.self]).value, last.arg))
    => IsOk(last.outcome) /\ Far = InfiniteMeters

\* the focus distance was the hyperfocal distance itself, and one beyond it
C2_Witness ==
    /\ DepthOfFieldDefined
    /\ last.arg = GetHyperfocalDistance(cameras[last.self]).value
    /\ Far = InfiniteMeters

\* C3: for s > f, near = s f^2 / (f^2 + N c s); far = s f^2 / (f^2 - N c s)
\* exactly when f^2 - N c s > 0, and +infinity otherwise.
C3_DepthOfFieldEquations ==
    DepthOfFieldDefined
    => /\ IsOk(last.outcome)
       /\ SameQuantity(QMul(Near, QAdd(FSquared, Blur)), QMul(last.arg, FSquared))
       /\ IF QGt(FSquared, Blur)
          THEN /\ ~IsInf(Far)
               /\ SameQuantity(QMul(Far, QSub(FSquared, Blur)),
                               QMul(last.arg, FSquared))
          ELSE Far = InfiniteMeters

\* the denominator f^2 - N c s was exactly 0
C3_Witness ==
    /\ DepthOfFieldDefined
    /\ SameQuantity(FSquared, Blur)
    /\ Far = InfiniteMeters

\* C4: a dispatch on an unrecognized cfa or projection ends in the
\* UnsupportedVariant error (the module's Error) naming the offending value,
\* and in no other kind of error.
C4_UnsupportedVariantError ==
    /\ (last.op = "circle_of_confusion_diameter" /\ ~KnownCfa(sensors[last.self]))
       => last.outcome.kind = "Error" /\ last.outcome.value[2] = sensors[last.self].cfa
    /\ (OnCamera(AngleOps) /\ ~KnownProjection(TheLens))
       => last.outcome.kind = "Error" /\ last.outcome.value[2] = TheLens.projection

\* C5: GetDepthOfField with focus_distance <= focal_length always fails its
\* assertion, whatever the sensor's cfa; with focus_distance > focal_length the
\* assertion never fails.
C5_PreconditionFirst ==
    OnCamera({"GetDepthOfField"})
    => (last.outcome.kind = "AssertionError"
        <=> ~QGt(last.arg, TheLens.focal_length))

\* the assertion failed on a camera whose sensor's cfa is not known
C5_Witness ==
    /\ OnCamera({"GetDepthOfField"})
    /\ ~KnownCfa(TheSensor)
    /\ ~QGt(last.arg, TheLens.focal_length)
    /\ last.outcome.kind = "AssertionError"

\* C6: every constructed Camera has a Sensor and a Lens, however constructed.
C6_CameraHasSensorAndLens ==
    \A c \in 1..Len(cameras) : cameras[c].sensor # 0 /\ cameras[c].lens # 0

\* the query op as a function of the state
Evaluate(op, self, arg) ==
    CASE op = "sensor_width" -> Ok(sensor_width(sensors[self]))
      [] op = "sensor_height" -> Ok(sensor_height(sensors[self]))
      [] op = "sensor_diagonal" -> Ok(sensor_diagonal(sensors[self]))
      [] op = "circle_of_confusion_diameter" ->
             circle_of_confusion_diameter(sensors[self])
      [] op = "f_number" -> Ok(f_number(lenses[self]))
      [] op = "GetAnglesOfView" -> GetAnglesOfView(cameras[self])
      [] op = "GetDiagonalAngleOfView" -> GetDiagonalAngleOfView(cameras[self])
      [] op = "GetInstantaneousAngleOfView" ->
             GetInstantaneousAngleOfView(cameras[self])
      [] op = "GetGroundSampleDistance" ->
             GetGroundSampleDistance(cameras[self], arg)
      [] op = "GetHyperfocalDistance" -> GetHyperfocalDistance(cameras[self])
      [] op = "GetDepthOfField" -> GetDepthOfField(cameras[self], arg)
      [] op = "Get35mmEquivalentFocalLength" ->
             Get35mmEquivalentFocalLength(cameras[self])
      [] op = "GetAPSCEquivalentFocalLength" ->
             GetAPSCEquivalentFocalLength(cameras[self])

\* C7: a query, also one that raises, leaves every attribute of every Sensor,
\* Lens and Camera as it was, so that the same query made again right after it
\* has the same outcome.
C7_QueriesDoNotMutate ==
    /\ [][last'.op \in QueryOps => objects' = objects]_vars
    /\ [](last.op \in QueryOps
          => SameOutcome(Evaluate(last.op, last.self, last.arg), last.outcome))

\* a query raised on one of two cameras that share their sensor and lens
C7_Witness ==
    /\ Len(cameras) = 2
    /\ cameras[1] = cameras[2]
    /\ OnCamera(CameraOps)
    /\ ~IsOk(last.outcome)

\* the lenses a and b agree on everything but their projection
SameButProjection(a, b) == [a EXCEPT !.projection = b.projection] = b

\* C8: cameras that agree on everything but the lens's projection have the same
\* outcome of GetHyperfocalDistance() and of GetDepthOfField(s).
C8_ProjectionIndependent ==
    \A c \in 1..Len(cameras) :
        (/\ OnCamera(FocusOps)
         /\ cameras[c].sensor = cameras[last.self].sensor
         /\ cameras[c].lens # 0
         /\ SameButProjection(lenses[cameras[c].lens], TheLens))
        => SameOutcome(Evaluate(last.op, c, last.arg), last.outcome)

\* depth of field was returned while another camera has the same lens with
\* another projection, one of them unsupported
C8_Witness ==
    /\ OnCamera({"GetDepthOfField"})
    /\ IsOk(last.outcome)
    /\ ~KnownProjection(TheLens)
    /\ \E c \in 1..Len(cameras) :
          /\ cameras[c].lens # 0
          /\ SameButProjection(lenses[cameras[c].lens], TheLens)
          /\ KnownProjection(lenses[cameras[c].lens])

\* the lens and sensor of camera c are physically those of the last call
SamePhysicalCamera(c) ==
    /\ cameras[c].sensor # 0
    /\ cameras[c].lens # 0
    /\ KnownCfa(sensors[cameras[c].sensor])
    /\ SameQuantity(sensors[cameras[c].sensor].pixel_pitch, TheSensor.pixel_pitch)
    /\ SameQuantity(lenses[cameras[c].lens].focal_length, TheLens.focal_length)
    /\ SameQuantity(lenses[cameras[c].lens].aperture_diameter,
                    TheLens.aperture_diameter)

\* the test's camera: 5 micron pitch, 10 mm focal length, 5 mm aperture
TestCamera ==
    /\ SameQuantity(TheSensor.pixel_pitch, Q(5, 1, micron))
    /\ SameQuantity(TheLens.focal_length, Q(10, 1, millimeter))
    /\ SameQuantity(TheLens.aperture_diameter, Q(5, 1, millimeter))

\* C9: GetHyperfocalDistance() returns H = f^2 / (N c) + f in meters: the same
\* number of meters for the same lengths given in any mix of m, mm and micron.
C9_HyperfocalInMeters ==
    (OnCamera({"GetHyperfocalDistance"}) /\ KnownCfa(TheSensor))
    => /\ IsOk(last.outcome)
       /\ last.outcome.value.u = meter
       /\ SameQuantity(QMul(QSub(last.outcome.value, TheLens.focal_length),
                            QMul(f_number(TheLens),
                                 Times(9, 4, TheSensor.pixel_pitch))),
                       FSquared)
       /\ TestCamera => last.outcome.value = Q(4009, 900, meter)
       /\ \A c \in 1..Len(cameras) :
              SamePhysicalCamera(c)
              => GetHyperfocalDistance(cameras[c]) = last.outcome

\* the hyperfocal distance was returned for lengths given in three units, while
\* another camera has the same lens measured in other units
C9_Witness ==
    /\ OnCamera({"GetHyperfocalDistance"})
    /\ IsOk(last.outcome)
    /\ TheSensor.pixel_pitch.u = millimeter
    /\ TheLens.focal_length.u = micron
    /\ TheLens.aperture_diameter.u = meter
    /\ \E c \in 1..Len(cameras) :
          SamePhysicalCamera(c) /\ lenses[cameras[c].lens].focal_length.u = meter

\* the last call raised because of a variant tag
FailedOnTag == last.outcome.kind \notin {"ok", "AssertionError", "AttributeError"}

\* C10: constructing with an unrecognized cfa or projection never fails, and a
\* query fails because of the tag exactly when it evaluates the dispatch on it:
\* the circle of confusion, hyperfocal distance and depth of field for cfa, the
\* angle-of-view and ground-sample-distance queries for projection.
C10_FailsAtPointOfUse ==
    /\ last.op \in ConstructorOps \cup {"sensor_width", "sensor_height",
                                        "sensor_diagonal", "f_number"}
       => IsOk(last.outcome)
    /\ last.op = "circle_of_confusion_diameter"
       => (FailedOnTag <=> ~KnownCfa(sensors[last.self]))
    /\ OnCamera(CameraOps)
       => /\ last.op \in AngleOps
             => /\ FailedOnTag <=> ~KnownProjection(TheLens)
                /\ IsOk(last.outcome) <=> KnownProjection(TheLens)
          /\ last.op = "GetHyperfocalDistance"
             => /\ FailedOnTag <=> ~KnownCfa(TheSensor)
                /\ IsOk(last.outcome) <=> KnownCfa(TheSensor)
          /\ last.op = "GetDepthOfField"
             => /\ FailedOnTag <=> (~KnownCfa(TheSensor)
                                    /\ QGt(last.arg, TheLens.focal_length))
                /\ ~KnownCfa(TheSensor) => ~IsOk(last.outcome)
                /\ IsOk(last.outcome) <=> (KnownCfa(TheSensor)
                                           /\ QGt(last.arg, TheLens.focal_length))
          /\ last.op \in EquivalentOps => IsOk(last.outcome)

\* an equivalent focal length was returned by a camera whose sensor's cfa and
\* whose lens's projection are both unrecognized
C10_Witness ==
    /\ OnCamera(EquivalentOps)
    /\ ~KnownCfa(TheSensor)
    /\ ~KnownProjection(TheLens)
    /\ IsOk(last.outcome)
====
